---- MODULE Spec2Model ----
(***************************************************************************)
(* The session middleware of src/index.js as a state machine.              *)
(*                                                                         *)
(* One middleware instance (one closure of session(options)) serves the    *)
(* requests of Reqs.  Per request the model keeps the closure variables of *)
(* the middleware function (cookieId, originalId, originalHash, ended),    *)
(* the request fields it reads and writes (req.sessionID, req.session) and *)
(* a log of what the middleware did to its collaborators: the store, the   *)
(* cookie writer and the underlying response.                              *)
(***************************************************************************)
EXTENDS Integers, Sequences, FiniteSets, TLC

\* ------------------------------------------------------------------ bounds

\* calls of req.session.regenerate() the handler makes per request
MaxRegenerate == 1
\* invocations of the patched res.end per response
MaxEndCalls == 2

\* ------------------------------------------------------------- value sets

Reqs == {1}

\* the requests of a run in which two are in flight together
TwoReqs == {1, 2}

\* the session id a request cookie can carry; 0 is "no cookie" (falsy)
InId == 1
CookieIds == {0, InId}

Keys == {"user", "cart"}
Vals == {"alice"}

\* UTF-8 bytes of the strings that occur in session data
StrBytes ==
  [s \in {"user", "cart", "alice", "bob", "cookie", "expires", "stale", "fresh"} |->
     CASE s = "user"    -> <<117, 115, 101, 114>>
       [] s = "cart"    -> <<99, 97, 114, 116>>
       [] s = "alice"   -> <<97, 108, 105, 99, 101>>
       [] s = "bob"     -> <<98, 111, 98>>
       [] s = "cookie"  -> <<99, 111, 111, 107, 105, 101>>
       [] s = "expires" -> <<101, 120, 112, 105, 114, 101, 115>>
       [] s = "stale"   -> <<115, 116, 97, 108, 101>>
       [] s = "fresh"   -> <<102, 114, 101, 115, 104>>]

\* ------------------------------------------------------------ fingerprint

\* a 32-bit word is a pair <<high 16 bits, low 16 bits>>
Pow2 == <<1, 2, 4, 8, 16, 32, 64, 128, 256, 512, 1024, 2048, 4096, 8192, 16384, 32768>>

\* bit k (from 1) of the 16-bit a
Bit(a, k) == (a \div Pow2[k]) % 2

\* bit k of the exclusive or of a and b, in its place
XorBit(a, b, k) == Pow2[k] * ((Bit(a, k) + Bit(b, k)) % 2)

\* the exclusive or of two 16-bit numbers
Xor(a, b) ==
  (((XorBit(a, b, 1) + XorBit(a, b, 2)) + (XorBit(a, b, 3) + XorBit(a, b, 4)))
    + ((XorBit(a, b, 5) + XorBit(a, b, 6)) + (XorBit(a, b, 7) + XorBit(a, b, 8))))
  + (((XorBit(a, b, 9) + XorBit(a, b, 10)) + (XorBit(a, b, 11) + XorBit(a, b, 12)))
    + ((XorBit(a, b, 13) + XorBit(a, b, 14)) + (XorBit(a, b, 15) + XorBit(a, b, 16))))

Xor32(x, y) == <<Xor(x[1], y[1]), Xor(x[2], y[2])>>

Shr1(x) == <<x[1] \div 2, (x[2] \div 2) + 32768 * (x[1] % 2)>>

\* the reflected CRC-32 polynomial 0xEDB88320
CrcPoly == <<60856, 33568>>

CrcBit(x) == IF x[2] % 2 = 1 THEN Xor32(Shr1(x), CrcPoly) ELSE Shr1(x)

\* the byte table of the table-driven CRC-32, as a tuple indexed from 1
CrcTable ==
  [n \in 1..256 |->
     CrcBit(CrcBit(CrcBit(CrcBit(CrcBit(CrcBit(CrcBit(CrcBit(<<0, n - 1>>))))))))]

Shr8(x) == <<x[1] \div 256, (x[2] \div 256) + 256 * (x[1] % 256)>>

CrcByte(x, b) == Xor32(CrcTable[Xor(x[2] % 256, b) + 1], Shr8(x))

\* the CRC register after the bytes from the i-th on, starting from x (the
\* test on x has the register computed before the next byte is taken up)
RECURSIVE CrcFold(_, _, _)
CrcFold(x, bytes, i) ==
  IF x[1] < 0 \/ i > Len(bytes) THEN x
  ELSE CrcFold(CrcByte(x, bytes[i]), bytes, i + 1)

\* crc32.signed(buf): the CRC-32 of the bytes as a signed 32-bit integer
crc32signed(bytes) ==
  LET x == Xor32(CrcFold(<<65535, 65535>>, bytes, 1), <<65535, 65535>>)
  IN  IF x[1] >= 32768 THEN (x[1] - 65536) * 65536 + x[2]
      ELSE x[1] * 65536 + x[2]

Quote(s) == <<34>> \o StrBytes[s] \o <<34>>

\* "key":"value"
Member(kv) == Quote(kv[1]) \o <<58>> \o Quote(kv[2])

\* the members of data from the i-th on, separated by commas
Members(data, i) ==
  LET m[j \in i..(Len(data) + 1)] ==
        IF j > Len(data) THEN <<>>
        ELSE (IF j > 1 THEN <<44>> ELSE <<>>) \o Member(data[j]) \o m[j + 1]
  IN  m[i]

\* JSON.stringify(sess, replacer): the replacer drops the key "cookie", the
\* other own keys are written in insertion order
Stringify(data) == <<123>> \o Members(data, 1) \o <<125>>

\* JSON.stringify(sess) without the replacer: the cookie is written as well
StringifyAll(sess) ==
  <<123>> \o Quote("cookie") \o <<58, 123>>
    \o (IF sess.cookie.expires = "null" THEN <<>>
        ELSE Member(<<"expires", sess.cookie.expires>>))
    \o <<125>>
    \o (IF Len(sess.data) > 0 THEN <<44>> ELSE <<>>) \o Members(sess.data, 1)
    \o <<125>>

\* every value session data can take: the keys in insertion order
AllData ==
  {d \in UNION {[1..n -> Keys \X Vals] : n \in 0..Cardinality(Keys)} :
     \A i, j \in DOMAIN d : i # j => d[i][1] # d[j][1]}

\* the values the expiry of a session cookie takes: none (a session-only
\* cookie), the one loaded from the store, the one set by a maxAge from now
Expiries == {"null", "stale", "fresh"}

\* the fingerprints of every value of the data, without and with the cookie
Fingerprints ==
  [plain |-> [d \in AllData |-> crc32signed(Stringify(d))],
   whole |-> [p \in AllData \X Expiries |->
                crc32signed(StringifyAll([data |-> p[1],
                                          cookie |-> [expires |-> p[2]]]))]]

\* ----------------------------------------------------------- secure check

Https == <<104, 116, 116, 112, 115>>

\* header.indexOf(','), counted from 0, -1 when there is none
IndexOfComma(s) ==
  IF \E i \in DOMAIN s : s[i] = 44
  THEN (CHOOSE i \in DOMAIN s : s[i] = 44 /\ \A j \in 1..(i - 1) : s[j] # 44) - 1
  ELSE -1

ToLowerCase(s) == [i \in DOMAIN s |-> IF s[i] \in 65..90 THEN s[i] + 32 ELSE s[i]]

IsSpace(b) == b \in {9, 10, 13, 32}

RECURSIVE Trim(_)
Trim(s) ==
  IF s = <<>> THEN s
  ELSE IF IsSpace(Head(s)) THEN Trim(Tail(s))
  ELSE IF IsSpace(s[Len(s)]) THEN Trim(SubSeq(s, 1, Len(s) - 1))
  ELSE s

\* issecure with the explicit "do not trust proxy" return left out
issecureNoDistrust(cn, trustProxy) ==
  IF cn.encrypted THEN TRUE
  ELSE IF trustProxy # "true"
       THEN (IF cn.secure \in {"true", "false"} THEN cn.secure = "true" ELSE FALSE)
       ELSE LET header == cn.proto
                index  == IndexOfComma(header)
                proto  == IF index # -1
                          THEN Trim(ToLowerCase(SubSeq(header, 1, index)))
                          ELSE Trim(ToLowerCase(header))
            IN  proto = Https

\* issecure(req, trustProxy); cn holds req.connection.encrypted, req.secure
\* and the x-forwarded-proto header
issecure(cn, trustProxy) ==
  IF cn.encrypted THEN TRUE
  ELSE IF trustProxy = "false" THEN FALSE
  ELSE IF trustProxy # "true"
       THEN (IF cn.secure \in {"true", "false"} THEN cn.secure = "true" ELSE FALSE)
       ELSE LET header == cn.proto
                index  == IndexOfComma(header)
                proto  == IF index # -1
                          THEN Trim(ToLowerCase(SubSeq(header, 1, index)))
                          ELSE Trim(ToLowerCase(header))
            IN  proto = Https

\* ------------------------------------------------------------------ state

VARIABLES
  opts,          \* the options session(options) was set up with
  storeReady,    \* the readiness flag of the middleware instance
  store,         \* the record the store holds under each id
  genCount,      \* the ids generateId has handed out
  pc,            \* where each request is in its life
  conn,          \* req.connection.encrypted, req.secure and x-forwarded-proto,
                 \* once the secure check has read them
  cookieId,      \* the id read from the request cookie
  sessionID,     \* req.sessionID
  session,       \* req.session
  originalId,
  originalHash,
  patched,       \* the middleware has hooked onHeaders and res.end
  ended,         \* the guard flag of the patched res.end
  pending,       \* the store commit whose callback has not run yet
  headersSent,   \* the response headers have been written
  regens,        \* the times the handler has regenerated the session
  wrote,         \* the handler has written to the data of the session
  trace,         \* what the middleware and the handler did, in order
  memo           \* Fingerprints, worked out once when the model starts

vars ==
  <<opts, storeReady, store, genCount, pc, conn, cookieId, sessionID, session,
    originalId, originalHash, patched, ended, pending, headersSent, regens,
    wrote, trace, memo>>

\* req.session when no session is attached (undefined or null)
NoSession == [null |-> TRUE]
\* what the store holds under an id without a record
NoRecord == [absent |-> TRUE]
\* no store commit is in flight
NoCommit == [op |-> "none"]

\* the ids in use: the cookie's and those generateId can hand out
Ids == 1..(InId + Cardinality(TwoReqs) * (1 + MaxRegenerate))

\* the connection of a request before the secure check has looked at it
NoConn == [unread |-> TRUE]

\* the connections a request can arrive on: an encrypted socket; a plain
\* socket where express reports req.secure and the proxy header says "http";
\* a plain socket where req.secure is false and the header "HTTPS , http"
Conns ==
  { [encrypted |-> TRUE, secure |-> "undef", proto |-> <<>>],
    [encrypted |-> FALSE, secure |-> "true", proto |-> <<104, 116, 116, 112>>],
    [encrypted |-> FALSE, secure |-> "false",
     proto |-> <<72, 84, 84, 80, 83, 32, 44, 32, 104, 116, 116, 112>>] }

\* the bodies res.end is called with
Chunks == {"undefined", "body"}

Ev(e, i, d, a) == [ev |-> e, id |-> i, data |-> d, arg |-> a]

\* new Cookie(cookie): a configured maxAge makes the cookie persistent
NewCookie ==
  [expires |-> IF opts.maxAge THEN "fresh" ELSE "null", secure |-> opts.secure]

\* generateId(req): an id no cookie and no earlier session carries
NextId == InId + genCount + 1

\* store.generate(req): req.sessionID and req.session afterwards
generate ==
  [sessionID |-> NextId,
   session   |-> [id |-> NextId, data |-> <<>>, cookie |-> NewCookie]]

\* store.createSession(req, sess): the stored record as a Session under
\* req.sessionID
createSession(sid, sess) == [id |-> sid, data |-> sess.data, cookie |-> sess.cookie]

\* req.session.resetMaxAge(): a persistent cookie expires maxAge from now
resetMaxAge(sess) ==
  [sess EXCEPT !.cookie.expires = IF @ = "null" THEN "null" ELSE "fresh"]

\* the record store.set(id, session) writes
Stored(sess) == [data |-> sess.data, cookie |-> sess.cookie]

Req(r) == [sessionID |-> sessionID[r], session |-> session[r]]

\* ---------------------------------------------------- decision functions

\* hash(sess) with the replacer left out: the cookie is hashed as well
hashWithCookie(sess) == memo.whole[<<sess.data, sess.cookie.expires>>]

\* hash(sess): the signed CRC-32 of the session's JSON without its cookie
hash(sess) == memo.plain[sess.data]

\* isModified with the comparison of the fingerprints left out
isModifiedIdOnly(r, sess) == originalId[r] # sess.id

\* isModified with the comparison of the ids left out
isModifiedHashOnly(r, sess) == originalHash[r] # <<hash(sess)>>

\* isModified(sess); an undefined originalHash is <<>>
isModified(r, sess) ==
  originalHash[r] # <<hash(sess)>> \/ originalId[r] # sess.id

\* shouldDestroy testing for a session that is still attached
shouldDestroyAttached(req) ==
  req.sessionID # 0 /\ opts.unsetDestroy /\ req.session # NoSession

\* shouldDestroy(req)
shouldDestroy(req) ==
  req.sessionID # 0 /\ opts.unsetDestroy /\ req.session = NoSession

\* shouldSave with resave deciding for every session
shouldSaveResaveFirst(r, req) ==
  opts.resave \/ isModified(r, req.session)

\* shouldSave with the two branches exchanged
shouldSaveSwapped(r, req) ==
  IF cookieId[r] # req.sessionID
  THEN opts.resave \/ isModified(r, req.session)
  ELSE opts.saveUninitialized \/ isModified(r, req.session)

\* shouldSave(req)
shouldSave(r, req) ==
  IF cookieId[r] # req.sessionID
  THEN opts.saveUninitialized \/ isModified(r, req.session)
  ELSE opts.resave \/ isModified(r, req.session)

\* shouldSetCookie without the test of the cookie's expiry
shouldSetCookieNoExpires(r, req) ==
  IF opts.rolling THEN TRUE
  ELSE IF cookieId[r] # req.sessionID
       THEN opts.saveUninitialized \/ isModified(r, req.session)
       ELSE isModified(r, req.session)

\* shouldSetCookie without the rolling test
shouldSetCookieNoRolling(r, req) ==
  IF cookieId[r] # req.sessionID
  THEN opts.saveUninitialized \/ isModified(r, req.session)
  ELSE req.session.cookie.expires # "null" /\ isModified(r, req.session)

\* shouldSetCookie(req)
shouldSetCookie(r, req) ==
  IF opts.rolling THEN TRUE
  ELSE IF cookieId[r] # req.sessionID
       THEN opts.saveUninitialized \/ isModified(r, req.session)
       ELSE req.session.cookie.expires # "null" /\ isModified(r, req.session)

\* the listener setting the cookie with the id the request came with
onHeadersOldId(r, req, cn) ==
  IF req.session = NoSession THEN <<>>
  ELSE IF req.session.cookie.secure /\ ~issecure(cn, opts.trustProxy) THEN <<>>
  ELSE IF ~shouldSetCookie(r, req) THEN <<>>
  ELSE <<Ev("cookie", cookieId[r], <<>>, "")>>

\* the onHeaders listener: the cookie it sets when the headers are written
\* while req is the state of the request
onHeaders(r, req, cn) ==
  IF req.session = NoSession THEN <<>>
  ELSE IF req.session.cookie.secure /\ ~issecure(cn, opts.trustProxy) THEN <<>>
  ELSE IF ~shouldSetCookie(r, req) THEN <<>>
  ELSE <<Ev("cookie", req.sessionID, <<>>, "")>>

\* writing the headers of response r: the listener runs the first time only
WriteHead(r, req, cn) ==
  IF headersSent[r] \/ ~patched[r] THEN <<>> ELSE onHeaders(r, req, cn)

\* the listener runs and gets as far as the secure check
ReadsConn(r, req) ==
  /\ ~headersSent[r]
  /\ patched[r]
  /\ req.session # NoSession
  /\ req.session.cookie.secure

\* the connections worth telling apart when the headers of response r are
\* written: all of them if the listener reads the connection, else any one
ConnChoices(r) ==
  IF ReadsConn(r, Req(r)) THEN Conns ELSE {CHOOSE cn \in Conns : cn.encrypted}

\* ------------------------------------------------------------------- init

\* the data of the record the store may hold for the cookie's id
InitData == << <<"user", "alice">> >>

\* the options after their defaults; the proxy option is only read for a
\* secure cookie
Options ==
  {o \in [resave : BOOLEAN, saveUninitialized : BOOLEAN, rolling : BOOLEAN,
          unsetDestroy : BOOLEAN, trustProxy : {"true", "false", "undef"},
          secure : BOOLEAN, maxAge : BOOLEAN] :
     o.secure \/ o.trustProxy = "undef"}

\* the state after session(options) has returned the middleware that serves
\* the requests reqs, the store holding data under the cookie's id or nothing
SetupWith(options, reqs, data) ==
  /\ memo = Fingerprints
  /\ opts \in options
  /\ storeReady = TRUE
  /\ \E present \in BOOLEAN :
       store = [i \in Ids |->
                  IF i = InId /\ present
                  THEN [data |-> data,
                        cookie |-> [expires |-> IF opts.maxAge THEN "stale" ELSE "null",
                                    secure |-> opts.secure]]
                  ELSE NoRecord]
  /\ genCount = 0
  /\ pc = [r \in reqs |-> "init"]
  /\ conn = [r \in reqs |-> NoConn]
  /\ cookieId = [r \in reqs |-> 0]
  /\ sessionID = [r \in reqs |-> 0]
  /\ session = [r \in reqs |-> NoSession]
  /\ originalId = [r \in reqs |-> 0]
  /\ originalHash = [r \in reqs |-> <<>>]
  /\ patched = [r \in reqs |-> FALSE]
  /\ ended = [r \in reqs |-> FALSE]
  /\ pending = [r \in reqs |-> NoCommit]
  /\ headersSent = [r \in reqs |-> FALSE]
  /\ regens = [r \in reqs |-> 0]
  /\ wrote = [r \in reqs |-> FALSE]
  /\ trace = [r \in reqs |-> <<>>]

\* the state after session(options) has returned the middleware
Setup(options) == SetupWith(options, Reqs, InitData)

\* the proxy option is left unset
Init == Setup({o \in Options : o.trustProxy = "undef"})

\* ---------------------------------------------------------------- actions

Log(r, evs) == [trace EXCEPT ![r] = @ \o evs]

\* store.on('disconnect')
Disconnect ==
  /\ storeReady
  /\ storeReady' = FALSE
  /\ UNCHANGED <<memo, opts, store, genCount, pc, conn, cookieId, sessionID, session,
                 originalId, originalHash, patched, ended, pending, headersSent,
                 regens, wrote, trace>>

\* the store loses its connection while no request is in flight
DisconnectIdle ==
  /\ \A r \in Reqs : pc[r] = "init"
  /\ Disconnect

\* store.on('connect')
Connect ==
  /\ ~storeReady
  /\ storeReady' = TRUE
  /\ UNCHANGED <<memo, opts, store, genCount, pc, conn, cookieId, sessionID, session,
                 originalId, originalHash, patched, ended, pending, headersSent,
                 regens, wrote, trace>>

\* generate(): a new session, snapshotted, for request r
Generated(r) ==
  /\ sessionID' = [sessionID EXCEPT ![r] = generate.sessionID]
  /\ session' = [session EXCEPT ![r] = generate.session]
  /\ originalId' = [originalId EXCEPT ![r] = generate.sessionID]
  /\ originalHash' = [originalHash EXCEPT ![r] = <<hash(generate.session)>>]
  /\ genCount' = genCount + 1

\* the readiness test of the middleware left out
StoreDownIgnored == FALSE

\* !storeReady
StoreDown == ~storeReady

\* what the log notes of the readiness flag when the middleware is entered
\* or calls the store
Readiness == IF storeReady THEN "" ELSE "down"

\* the middleware function up to the store.get call; the request arrives
\* without a session attached; the log notes the readiness flag at entry
Middleware(r) ==
  /\ pc[r] = "init"
  /\ \E cid \in CookieIds, inPath \in BOOLEAN :
       LET enter == Ev("enter", 0, <<>>, Readiness) IN
       IF StoreDown \/ ~inPath
       THEN \* store disconnected or pathname mismatch: next()
            /\ pc' = [pc EXCEPT ![r] = "active"]
            /\ trace' = Log(r, <<enter, Ev("next", 0, <<>>,
                                            IF StoreDown THEN "" ELSE "nopath")>>)
            /\ UNCHANGED <<cookieId, sessionID, session, originalId,
                           originalHash, genCount, patched>>
       ELSE /\ cookieId' = [cookieId EXCEPT ![r] = cid]
            /\ patched' = [patched EXCEPT ![r] = TRUE]
            /\ IF cid = 0
               THEN /\ Generated(r)
                    /\ pc' = [pc EXCEPT ![r] = "active"]
                    /\ trace' = Log(r, <<enter, Ev("next", generate.sessionID, <<>>, "")>>)
               ELSE /\ sessionID' = [sessionID EXCEPT ![r] = cid]
                    /\ pc' = [pc EXCEPT ![r] = "lookup"]
                    /\ trace' = Log(r, <<enter, Ev("get", cid, <<>>, Readiness)>>)
                    /\ UNCHANGED <<session, originalId, originalHash, genCount>>
  /\ UNCHANGED <<memo, opts, storeReady, store, conn, ended, pending, headersSent, regens,
                 wrote>>

\* what store.get can call back with for the record rec
GetOutcomes(rec) ==
  IF rec = NoRecord THEN {"ENOENT", "error", "nosess"} ELSE {"found", "error"}

\* the callback of store.get; the log keeps what the store called back with
\* and the session next() is called with
GetCallback(r) ==
  /\ pc[r] = "lookup"
  /\ \E out \in GetOutcomes(store[sessionID[r]]) :
       LET got == Ev("got", sessionID[r], <<>>, out) IN
       CASE out \in {"ENOENT", "nosess"} ->
              /\ Generated(r)
              /\ trace' = Log(r, <<got, Ev("next", generate.sessionID, <<>>, "")>>)
         [] out = "error" ->
              /\ trace' = Log(r, <<got, Ev("next", 0, <<>>, "err")>>)
              /\ UNCHANGED <<sessionID, session, originalId, originalHash, genCount>>
         [] out = "found" ->
              LET sess == store[sessionID[r]] IN
              /\ session' = [session EXCEPT ![r] = createSession(sessionID[r], sess)]
              /\ originalId' = [originalId EXCEPT ![r] = sessionID[r]]
              /\ originalHash' = [originalHash EXCEPT ![r] = <<hash(sess)>>]
              /\ trace' = Log(r, <<got, Ev("next", sessionID[r], sess.data, "")>>)
              /\ UNCHANGED <<sessionID, genCount>>
  /\ pc' = [pc EXCEPT ![r] = "active"]
  /\ UNCHANGED <<memo, opts, storeReady, store, conn, cookieId, patched, ended,
                 pending, headersSent, regens, wrote>>

\* ------------------------------------------------- the downstream handler

HasKey(data, k) == \E i \in DOMAIN data : data[i][1] = k

\* sess[k] = v: a present key keeps its place, a new key goes last
Put(data, k, v) ==
  IF HasKey(data, k)
  THEN [i \in DOMAIN data |-> IF data[i][1] = k THEN <<k, v>> ELSE data[i]]
  ELSE Append(data, <<k, v>>)

\* delete sess[k]
Remove(data, k) == SelectSeq(data, LAMBDA kv : kv[1] # k)

CanStep(r) ==
  /\ pc[r] = "active"
  /\ session[r] # NoSession

\* the handler assigns req.session[k] = v
HandlerSet(r) ==
  /\ CanStep(r)
  /\ \E k \in Keys, v \in Vals :
       session' = [session EXCEPT ![r].data = Put(@, k, v)]
  /\ wrote' = [wrote EXCEPT ![r] = TRUE]
  /\ UNCHANGED <<memo, opts, storeReady, store, genCount, pc, conn, cookieId, sessionID,
                 originalId, originalHash, patched, ended, pending, headersSent,
                 regens, trace>>

\* the handler deletes req.session[k]
HandlerDelete(r) ==
  /\ CanStep(r)
  /\ \E k \in Keys :
       /\ HasKey(session[r].data, k)
       /\ session' = [session EXCEPT ![r].data = Remove(@, k)]
  /\ wrote' = [wrote EXCEPT ![r] = TRUE]
  /\ UNCHANGED <<memo, opts, storeReady, store, genCount, pc, conn, cookieId, sessionID,
                 originalId, originalHash, patched, ended, pending, headersSent,
                 regens, trace>>

\* the handler assigns req.session = null
HandlerUnset(r) ==
  /\ CanStep(r)
  /\ session' = [session EXCEPT ![r] = NoSession]
  /\ trace' = Log(r, <<Ev("unset", 0, <<>>, "")>>)
  /\ UNCHANGED <<memo, opts, storeReady, store, genCount, pc, conn, cookieId, sessionID,
                 originalId, originalHash, patched, ended, pending, headersSent,
                 regens, wrote>>

\* the handler calls req.session.regenerate(): the store destroys the record
\* of req.sessionID and store.generate(req) attaches a new session; the
\* snapshot of the middleware stays as it is
HandlerRegenerate(r) ==
  /\ CanStep(r)
  /\ regens[r] < MaxRegenerate
  /\ regens' = [regens EXCEPT ![r] = @ + 1]
  /\ store' = [store EXCEPT ![sessionID[r]] = NoRecord]
  /\ sessionID' = [sessionID EXCEPT ![r] = generate.sessionID]
  /\ session' = [session EXCEPT ![r] = generate.session]
  /\ genCount' = genCount + 1
  /\ UNCHANGED <<memo, opts, storeReady, pc, conn, cookieId, originalId, originalHash,
                 patched, ended, pending, headersSent, wrote, trace>>

\* the handler has the head written (res.writeHead, or a res.write of a
\* first piece of the body) before it ends the response; the log gets note
WriteHeadEarly(r, note) ==
  /\ pc[r] = "active"
  /\ ~headersSent[r]
  /\ headersSent' = [headersSent EXCEPT ![r] = TRUE]
  /\ \E cn \in ConnChoices(r) :
       /\ conn' = [conn EXCEPT ![r] = IF ReadsConn(r, Req(r)) THEN cn ELSE @]
       /\ trace' = Log(r, WriteHead(r, Req(r), cn) \o <<Ev("head", 0, <<>>, note)>>)
  /\ UNCHANGED <<memo, opts, storeReady, store, genCount, pc, cookieId, sessionID,
                 session, originalId, originalHash, patched, ended, pending,
                 regens, wrote>>

\* the handler writes the head before it ends the response
HandlerWriteHead(r) == WriteHeadEarly(r, "")

\* whether the session data are the data next() was called with
DataAtHead(r) ==
  IF session[r] = NoSession THEN ""
  ELSE IF \E i \in DOMAIN trace[r] :
            trace[r][i].ev = "next" /\ trace[r][i].data = session[r].data
       THEN "asloaded" ELSE "changed"

\* the handler writes the head before it ends the response, and the log
\* notes whether the session data had been changed by then
HandlerWriteHeadNoted(r) == WriteHeadEarly(r, DataAtHead(r))

\* ------------------------------------------------------------ finalization

Count(seq, e) == Cardinality({i \in DOMAIN seq : seq[i].ev = e})

\* a store whose set leaves a record that is already there as it is
ApplyCommitKeepsRecord(st, p) ==
  IF p.op = "set"
  THEN (IF st[p.id] = NoRecord THEN [st EXCEPT ![p.id] = p.rec] ELSE st)
  ELSE IF p.op = "destroy" THEN [st EXCEPT ![p.id] = NoRecord]
  ELSE st

\* the store after the commit p has been carried out
ApplyCommit(st, p) ==
  IF p.op = "set" THEN [st EXCEPT ![p.id] = p.rec]
  ELSE IF p.op = "destroy" THEN [st EXCEPT ![p.id] = NoRecord]
  ELSE st

\* the guard flag after the first invocation, had "ended = true" been left out
EndedNotSet == FALSE

\* ended = true
EndedSet == TRUE

\* the store callback while sync is still true, forgetting to end on an error
CallbackInsideNoEndOnError(r, req, cn, c, err) ==
  <<Ev("cb", 0, <<>>, IF err THEN "err" ELSE "")>>
    \o (IF err THEN <<>>
        ELSE WriteHead(r, req, cn) \o <<Ev("end", 0, <<>>, c), Ev("ret", 0, <<>>, "end")>>)

\* the store callback running inside the store call (sync is still true):
\* the underlying end is given the chunk, and its value is what res.end returns
CallbackInside(r, req, cn, c, err) ==
  <<Ev("cb", 0, <<>>, IF err THEN "err" ELSE "")>>
    \o WriteHead(r, req, cn)
    \o <<Ev("end", 0, <<>>, c), Ev("ret", 0, <<>>, "end")>>

\* the rest of res.end ending the response itself instead of writing the chunk
AfterStoreCallEnds(r, req, cn, c) ==
  WriteHead(r, req, cn) \o <<Ev("end", 0, <<>>, c), Ev("ret", 0, <<>>, "end")>>

\* the rest of res.end when the store has not called back yet (sync is still
\* true): the chunk is written, and the value of res.write is returned
AfterStoreCall(r, req, cn, c) ==
  WriteHead(r, req, cn) \o <<Ev("write", 0, <<>>, c), Ev("ret", 0, <<>>, "write")>>

\* the store callback after res.end has returned, passing the chunk again
CallbackLaterResends(err) ==
  <<Ev("cb", 0, <<>>, IF err THEN "err" ELSE ""), Ev("end", 0, <<>>, "body")>>

\* the store callback after res.end has returned (sync is false): the
\* underlying end is called without a chunk
CallbackLater(err) ==
  <<Ev("cb", 0, <<>>, IF err THEN "err" ELSE ""), Ev("end", 0, <<>>, "none")>>

\* end.call(res, chunk, encoding) without a commit
EndNow(r, req, cn, c) ==
  WriteHead(r, req, cn) \o <<Ev("end", 0, <<>>, c), Ev("ret", 0, <<>>, "end")>>

\* res.end issues the commit p: the store calls back inside the call or later
Commit(r, call, p, req, cn, c, cbSync, err) ==
  LET op == Ev(p.op, p.id, IF p.op = "set" THEN p.rec.data ELSE <<>>, Readiness) IN
  IF cbSync
  THEN /\ store' = IF err THEN store ELSE ApplyCommit(store, p)
       /\ trace' = Log(r, <<call, op>> \o CallbackInside(r, req, cn, c, err))
       /\ pc' = [pc EXCEPT ![r] =
                   IF Count(trace'[r], "end") > 0 THEN "done" ELSE "committing"]
       /\ UNCHANGED pending
  ELSE /\ pending' = [pending EXCEPT ![r] = p]
       /\ trace' = Log(r, <<call, op>> \o AfterStoreCall(r, req, cn, c))
       /\ pc' = [pc EXCEPT ![r] = "committing"]
       /\ UNCHANGED store

Finish(r, call, req, cn, c) ==
  /\ trace' = Log(r, <<call>> \o EndNow(r, req, cn, c))
  /\ pc' = [pc EXCEPT ![r] = "done"]
  /\ UNCHANGED <<store, pending>>

\* this invocation of res.end for response r will call the store
WillCommit(r) ==
  /\ patched[r]
  /\ ~ended[r]
  /\ \/ shouldDestroy(Req(r))
     \/ /\ session[r] # NoSession
        /\ shouldSave(r, [Req(r) EXCEPT !.session = resetMaxAge(@)])

\* how the store can call back, where it is called at all: inside the call or
\* later, with an error or without
CallbackChoices(r) == IF WillCommit(r) THEN BOOLEAN ELSE {FALSE}

\* res.end(chunk) as the handler or the transport calls it, with a chunk
\* of chunks
ResEnd(r, chunks) ==
  /\ pc[r] \in {"active", "committing", "done"}
  /\ Count(trace[r], "call") < MaxEndCalls
  /\ \E chunk \in chunks, cbSync \in CallbackChoices(r), err \in CallbackChoices(r),
        cn \in ConnChoices(r) :
       LET call == Ev("call", 0, <<>>, "")
           c    == IF chunk = "undefined" THEN "" ELSE chunk
           req  == Req(r)
       IN
       IF ~patched[r]
       THEN \* the middleware stepped aside: the response's own end
            /\ pc[r] = "active"
            /\ trace' = Log(r, <<Ev("end", 0, <<>>, chunk)>>)
            /\ pc' = [pc EXCEPT ![r] = "done"]
            /\ headersSent' = [headersSent EXCEPT ![r] = TRUE]
            /\ UNCHANGED <<store, pending, ended, session, conn>>
       ELSE IF ended[r]
       THEN /\ trace' = Log(r, <<call, Ev("ret", 0, <<>>, "false")>>)
            /\ UNCHANGED <<store, pending, ended, session, pc, headersSent, conn>>
       ELSE /\ ended' = [ended EXCEPT ![r] = EndedSet]
            /\ headersSent' = [headersSent EXCEPT ![r] = TRUE]
            /\ IF shouldDestroy(req)
               THEN /\ Commit(r, call,
                              [op |-> "destroy", id |-> req.sessionID, rec |-> NoRecord],
                              req, cn, c, cbSync, err)
                    /\ UNCHANGED <<session, conn>>
               ELSE IF req.session = NoSession
               THEN /\ Finish(r, call, req, cn, c)
                    /\ UNCHANGED <<session, conn>>
               ELSE LET req2 == [req EXCEPT !.session = resetMaxAge(@)] IN
                    /\ session' = [session EXCEPT ![r] = req2.session]
                    /\ conn' = [conn EXCEPT ![r] = IF ReadsConn(r, req2) THEN cn ELSE @]
                    /\ IF shouldSave(r, req2)
                       THEN Commit(r, call,
                                   [op |-> "set", id |-> req2.session.id,
                                    rec |-> Stored(req2.session)],
                                   req2, cn, c, cbSync, err)
                       ELSE Finish(r, call, req2, cn, c)
  /\ UNCHANGED <<memo, opts, storeReady, genCount, cookieId, sessionID, originalId,
                 originalHash, patched, regens, wrote>>

\* the store calls back after res.end has returned
CommitCallback(r) ==
  /\ pending[r] # NoCommit
  /\ \E err \in BOOLEAN :
       /\ store' = IF err THEN store ELSE ApplyCommit(store, pending[r])
       /\ trace' = Log(r, CallbackLater(err))
  /\ pending' = [pending EXCEPT ![r] = NoCommit]
  /\ pc' = [pc EXCEPT ![r] = "done"]
  /\ UNCHANGED <<memo, opts, storeReady, genCount, conn, cookieId, sessionID, session,
                 originalId, originalHash, patched, ended, headersSent, regens,
                 wrote>>

\* ------------------------------------------------------------ specification

Next ==
  \/ DisconnectIdle
  \/ Connect
  \/ \E r \in Reqs :
       \/ Middleware(r)
       \/ GetCallback(r)
       \/ HandlerSet(r)
       \/ HandlerDelete(r)
       \/ HandlerUnset(r)
       \/ HandlerRegenerate(r)
       \/ HandlerWriteHead(r)
       \/ ResEnd(r, {"body"})
       \/ CommitCallback(r)

Spec == Init /\ [][Next]_vars

\* the store loses and regains its connection at any moment of a request
\* whose cookie is neither secure nor persistent
InitOutage ==
  Setup({o \in Options : o.trustProxy = "undef" /\ ~o.secure /\ ~o.maxAge})

NextOutage ==
  \/ Disconnect
  \/ Connect
  \/ \E r \in Reqs :
       \/ Middleware(r)
       \/ GetCallback(r)
       \/ HandlerSet(r)
       \/ HandlerUnset(r)
       \/ ResEnd(r, {"body"})
       \/ CommitCallback(r)

SpecOutage == InitOutage /\ [][NextOutage]_vars

\* a secure session cookie under each setting of the proxy option
InitProxy ==
  Setup({o \in Options : o.secure /\ ~o.maxAge /\ ~o.unsetDestroy})

NextProxy ==
  \E r \in Reqs :
    \/ Middleware(r)
    \/ GetCallback(r)
    \/ HandlerSet(r)
    \/ HandlerWriteHead(r)
    \/ ResEnd(r, {"body"})
    \/ CommitCallback(r)

SpecProxy == InitProxy /\ [][NextProxy]_vars

\* the one res.end call of a handler that ends its response once
EndOnce(r) ==
  /\ pc[r] = "active"
  /\ ResEnd(r, {"body"})

\* the stored session holds two keys, which the handler assigns and deletes
TwoKeys == << <<"user", "alice">>, <<"cart", "alice">> >>

InitOrder ==
  SetupWith({o \in Options :
               o.trustProxy = "undef" /\ ~o.secure /\ ~o.unsetDestroy},
            Reqs, TwoKeys)

NextOrder ==
  \E r \in Reqs :
    \/ Middleware(r)
    \/ GetCallback(r)
    \/ HandlerSet(r)
    \/ HandlerDelete(r)
    \/ EndOnce(r)
    \/ CommitCallback(r)

SpecOrder == InitOrder /\ [][NextOrder]_vars

\* without rolling, the head written by the handler or at finalization
InitHead ==
  Setup({o \in Options :
           o.trustProxy = "undef" /\ ~o.rolling /\ ~o.unsetDestroy})

NextHead ==
  \E r \in Reqs :
    \/ Middleware(r)
    \/ GetCallback(r)
    \/ HandlerSet(r)
    \/ HandlerDelete(r)
    \/ HandlerWriteHeadNoted(r)
    \/ EndOnce(r)
    \/ CommitCallback(r)

SpecHead == InitHead /\ [][NextHead]_vars

\* two requests in flight together, with or without the cookie of the same
\* stored session; only resave varies
InitConcurrent ==
  SetupWith({o \in Options :
               /\ o.trustProxy = "undef"
               /\ ~o.secure /\ ~o.maxAge /\ ~o.unsetDestroy
               /\ ~o.rolling /\ ~o.saveUninitialized},
            TwoReqs, InitData)

NextConcurrent ==
  \E r \in TwoReqs :
    \/ Middleware(r)
    \/ GetCallback(r)
    \/ HandlerSet(r)
    \/ EndOnce(r)
    \/ CommitCallback(r)

SpecConcurrent == InitConcurrent /\ [][NextConcurrent]_vars

\* ------------------------------------------------- reading the log of a request

\* the positions of the events e in the log of request r
At(r, e) == {i \in DOMAIN trace[r] : trace[r][i].ev = e}

Has(r, e) == At(r, e) # {}

N(r, e) == Cardinality(At(r, e))

\* the commits res.end has issued to the store
Commits(r) == At(r, "set") \cup At(r, "destroy")

\* the session data next() was called with
Loaded(r) == trace[r][CHOOSE i \in At(r, "next") : TRUE].data

\* the store had no record for the id of the cookie: ENOENT, or no session
Missed(r) ==
  \E i \in At(r, "got") : trace[r][i].arg \in {"ENOENT", "nosess"}

\* the listener's secure test lets the cookie of request r through
SecurePass(r) ==
  ~opts.secure \/ (conn[r] # NoConn /\ issecure(conn[r], opts.trustProxy))

\* the patched res.end has run its finalization for request r
Finalized(r) == patched[r] /\ N(r, "call") > 0

\* the session that was attached when next() was called is still the one
\* attached at finalization
KeptSession(r) ==
  /\ Finalized(r)
  /\ session[r] # NoSession
  /\ regens[r] = 0
  /\ ~Has(r, "unset")

\* the handler had the head written before the response was ended
EarlyHead(r) == Has(r, "head")

\* the id and the data next() found attached to the request
Attached(r) == trace[r][CHOOSE i \in At(r, "next") : TRUE]

\* store.set was issued once, for the id and the data
SavedOnceAs(r, id, data) ==
  /\ N(r, "set") = 1
  /\ \A i \in At(r, "set") : trace[r][i].id = id /\ trace[r][i].data = data

\* the session cookie was set once, carrying the id
CookieOnceWith(r, id) ==
  /\ N(r, "cookie") = 1
  /\ \A i \in At(r, "cookie") : trace[r][i].id = id

\* the session found in the store for the id of the cookie is still attached,
\* unregenerated, at finalization
Hydrated(r) ==
  /\ KeptSession(r)
  /\ cookieId[r] # 0
  /\ \E i \in At(r, "got") : trace[r][i].arg = "found"

\* a session was attached when the headers of the response were written
SessionAtHeaders(r) ==
  IF EarlyHead(r)
  THEN /\ Attached(r).id # 0
       /\ \A h \in At(r, "head") : \A u \in At(r, "unset") : h < u
  ELSE Finalized(r) /\ session[r] # NoSession

\* ----------------------------------------------------------------- claims

\* C1: once the patched res.end has been invoked for a response, every later
\* invocation only returns false: nothing is issued to the store, nothing is
\* written and the underlying end is not called between that invocation and
\* its return.
C1_LaterEndIsNoOp ==
  \A r \in Reqs : \A i \in At(r, "call") :
    (\E j \in At(r, "call") : j < i) =>
      /\ i < Len(trace[r])
      /\ trace[r][i + 1] = Ev("ret", 0, <<>>, "false")

\* res.end was invoked a second time while the commit of the first was pending
C1_Witness ==
  \E r \in Reqs : N(r, "call") = 2 /\ N(r, "set") = 1 /\ pending[r] # NoCommit

\* C2: on every finalization path (destroy, no session, save, no save),
\* whether the store calls back inside the call or later, with or without an
\* error, the underlying end is called exactly once per response: never
\* twice, and once when the finalization and its store callback are over.
C2_EndExactlyOnce ==
  \A r \in Reqs :
    /\ N(r, "end") <= 1
    /\ (Finalized(r) /\ pending[r] = NoCommit) => N(r, "end") = 1

\* the store reported an error inside the call, and the response was ended
C2_Witness ==
  \E r \in Reqs :
    /\ N(r, "end") = 1
    /\ N(r, "write") = 0
    /\ \E i \in At(r, "cb") : trace[r][i].arg = "err"

\* C3: when finalization issues a commit (store.set or store.destroy), the
\* underlying end is not called before the callback of that commit has run.
C3_EndAfterCallback ==
  \A r \in Reqs : \A j \in Commits(r) : \A i \in At(r, "end") :
    \E k \in At(r, "cb") : j < k /\ k < i

\* the store called back after res.end had written the chunk and returned
C3_Witness ==
  \E r \in Reqs :
    /\ N(r, "write") = 1 /\ N(r, "cb") = 1 /\ N(r, "end") = 1
    /\ Commits(r) # {}

\* C4 as stated: whenever resave is enabled, every finalization with a session
\* attached issues store.set, whatever saveUninitialized is.
C4_ResaveAlwaysSaves ==
  \A r \in Reqs :
    (opts.resave /\ Finalized(r) /\ session[r] # NoSession) => N(r, "set") = 1

\* C4: whenever resave is enabled, every finalization with a session attached
\* whose id is the id of the request's cookie issues store.set for it,
\* modified or not, whatever saveUninitialized is.
C4_ResaveSavesCookieSession ==
  \A r \in Reqs :
    (/\ opts.resave
     /\ Finalized(r)
     /\ session[r] # NoSession
     /\ cookieId[r] = sessionID[r])
    => SavedOnceAs(r, sessionID[r], session[r].data)

\* an unmodified session loaded for the cookie's id was saved only for resave
C4_Witness ==
  \E r \in Reqs :
    /\ opts.resave /\ ~opts.saveUninitialized
    /\ Hydrated(r)
    /\ session[r].data = Loaded(r)
    /\ N(r, "set") = 1

\* C5: with resave off, the finalization of a session loaded for the cookie's
\* id, whose id is unchanged and whose data is as loaded, issues no store.set,
\* whatever became of its cookie (resetMaxAge moves the expiry).
C5_UnmodifiedNotSaved ==
  \A r \in Reqs :
    (~opts.resave /\ Hydrated(r) /\ session[r].data = Loaded(r))
    => N(r, "set") = 0

\* the expiry of the loaded session's cookie was moved, and nothing was saved
C5_Witness ==
  \E r \in Reqs :
    /\ ~opts.resave
    /\ Hydrated(r)
    /\ session[r].data = Loaded(r)
    /\ store[cookieId[r]] # NoRecord
    /\ store[cookieId[r]].cookie.expires # session[r].cookie.expires
    /\ N(r, "end") = 1
    /\ N(r, "set") = 0

\* C6: a request without a session id in its cookie, with saveUninitialized
\* and rolling off, whose handler leaves the generated session as it is
\* (writes no data, does not replace it): no store.set is issued and no
\* session cookie is set, whatever resave is.
C6_UntouchedNewSessionLeavesNothing ==
  \A r \in Reqs :
    (/\ patched[r]
     /\ cookieId[r] = 0
     /\ ~opts.saveUninitialized
     /\ ~opts.rolling
     /\ ~wrote[r]
     /\ regens[r] = 0)
    => N(r, "set") = 0 /\ N(r, "cookie") = 0

\* such a response was ended with resave enabled
C6_Witness ==
  \E r \in Reqs :
    /\ cookieId[r] = 0
    /\ ~opts.saveUninitialized /\ ~opts.rolling /\ opts.resave
    /\ ~wrote[r]
    /\ KeptSession(r)
    /\ N(r, "end") = 1
    /\ N(r, "set") = 0 /\ N(r, "cookie") = 0

C8_MissSavedAndCookie ==
  \A r \in Reqs :
    Missed(r) =>
      /\ Attached(r).arg # "err"
      /\ Attached(r).id \notin {0, cookieId[r]}
      /\ (opts.saveUninitialized /\ KeptSession(r)) =>
           /\ SavedOnceAs(r, Attached(r).id, session[r].data)
           /\ CookieOnceWith(r, Attached(r).id)

\* C8: after such a miss next() gets no error and a session under a new id C;
\* with saveUninitialized, store.set is issued once under C, never under B;
\* the session cookie is set, carrying C, when the secure test of the
\* listener passes, and is not set when that test fails.
C8_MissSaved ==
  \A r \in Reqs :
    Missed(r) =>
      /\ Attached(r).arg # "err"
      /\ Attached(r).id \notin {0, cookieId[r]}
      /\ (opts.saveUninitialized /\ KeptSession(r)) =>
           /\ SavedOnceAs(r, Attached(r).id, session[r].data)
           /\ IF SecurePass(r) THEN CookieOnceWith(r, Attached(r).id)
              ELSE N(r, "cookie") = 0

\* an untouched session generated after a miss was saved and announced
C8_Witness ==
  \E r \in Reqs :
    /\ Missed(r)
    /\ opts.saveUninitialized /\ ~opts.resave /\ ~opts.rolling
    /\ KeptSession(r)
    /\ ~wrote[r]
    /\ N(r, "set") = 1
    /\ CookieOnceWith(r, Attached(r).id)
    /\ N(r, "end") = 1

C10_RollingSetsCookie ==
  \A r \in Reqs :
    (/\ opts.rolling
     /\ patched[r]
     /\ headersSent[r]
     /\ SessionAtHeaders(r)
     /\ SecurePass(r))
    => /\ N(r, "cookie") = 1
       /\ ~EarlyHead(r) => CookieOnceWith(r, sessionID[r])

\* rolling alone made an unmodified loaded session set its cookie again
C10_Witness ==
  \E r \in Reqs :
    /\ opts.rolling /\ ~opts.saveUninitialized /\ ~opts.resave
    /\ Hydrated(r)
    /\ session[r].data = Loaded(r)
    /\ session[r].cookie.expires = "null"
    /\ CookieOnceWith(r, cookieId[r])

\* C11: with a secure session cookie and the proxy option explicitly false, a
\* request whose connection is not encrypted never gets a session cookie,
\* whatever x-forwarded-proto ("https" included) and req.secure say and
\* whatever rolling, resave and saveUninitialized are.
C11_DistrustedProxyNoCookie ==
  \A r \in Reqs :
    (/\ opts.secure
     /\ opts.trustProxy = "false"
     /\ (conn[r] = NoConn \/ ~conn[r].encrypted))
    => N(r, "cookie") = 0

\* a rolling response on a plain socket whose x-forwarded-proto claims https
\* (a trusted proxy would have made it secure) was ended without a cookie
C11_Witness ==
  \E r \in Reqs :
    /\ opts.secure /\ opts.trustProxy = "false" /\ opts.rolling
    /\ conn[r] # NoConn
    /\ ~conn[r].encrypted
    /\ issecure(conn[r], "true")
    /\ N(r, "end") = 1
    /\ N(r, "cookie") = 0

\* the middleware was entered for request r while the store was disconnected
EnteredDown(r) == \E i \in At(r, "enter") : trace[r][i].arg = "down"

\* the calls the middleware made to the store for request r
StoreCalls(r) == At(r, "get") \cup Commits(r)

\* C12: a request that enters the middleware while the store is disconnected
\* goes downstream without an error and without a session, and for it no
\* store.get, store.set or store.destroy is issued and no session cookie is
\* set; a request that enters while the store is connected (also after a
\* disconnect and a later connect) is handled: its response is patched,
\* unless the path does not match.
C12_DisconnectedBypasses ==
  \A r \in Reqs :
    /\ EnteredDown(r) =>
         /\ ~patched[r]
         /\ session[r] = NoSession
         /\ Attached(r).id = 0 /\ Attached(r).arg = ""
         /\ StoreCalls(r) = {}
         /\ N(r, "cookie") = 0
    /\ (Has(r, "enter") /\ ~EnteredDown(r)) =>
         \/ patched[r]
         \/ Has(r, "next") /\ Attached(r).arg = "nopath"

\* a request that entered during an outage was ended after the reconnect
C12_Witness ==
  \E r \in Reqs : EnteredDown(r) /\ N(r, "end") = 1 /\ storeReady

\* C13 as stated: the middleware calls store.get, store.set (save) or
\* store.destroy for no request while the store is disconnected, however the
\* disconnect and connect events fall between the entry of the request, the
\* completion of store.get and the finalization.
C13_NoStoreCallWhileDisconnected ==
  \A r \in Reqs : \A i \in StoreCalls(r) : trace[r][i].arg # "down"

\* the store.set of request r has completed without an error
SetDone(r) ==
  /\ N(r, "set") = 1
  /\ \E i \in At(r, "cb") : trace[r][i].arg = ""

\* the data request r gave to store.set
SetData(r) == trace[r][CHOOSE i \in At(r, "set") : TRUE].data

\* C14: of two requests in flight together, neither is kept from finalizing
\* by the other (a response whose handler is running can always be ended),
\* and whenever a store.set completes, the record of its id is exactly what
\* that set wrote, whatever the other request had written before: nothing is
\* merged, the set that completes last wins.
C14_LastWriteWins ==
  /\ [](\A r \in TwoReqs :
          (patched[r] /\ pc[r] = "active") => ENABLED EndOnce(r))
  /\ [][\A r \in TwoReqs :
          (~SetDone(r) /\ SetDone(r)') =>
             store'[sessionID'[r]] = [data |-> SetData(r)',
                                      cookie |-> session'[r].cookie]]_vars

\* the change one request saved was overwritten by the other request's
\* unmodified session, re-saved because of resave
C14_Witness ==
  \E r1, r2 \in TwoReqs :
    /\ opts.resave
    /\ Hydrated(r1) /\ Hydrated(r2)
    /\ cookieId[r1] = cookieId[r2]
    /\ wrote[r1] /\ SetDone(r1) /\ SetData(r1) # InitData
    /\ ~wrote[r2] /\ SetDone(r2) /\ SetData(r2) = InitData
    /\ pc[r1] = "done" /\ pc[r2] = "done"
    /\ store[cookieId[r1]].data = InitData

\* the two data hold the same key/value pairs
SameMapping(d1, d2) ==
  {d1[i] : i \in DOMAIN d1} = {d2[i] : i \in DOMAIN d2}

\* C15 as stated: the fingerprint does not depend on the order of the keys:
\* when the handler leaves a loaded session with the key/value pairs it was
\* loaded with, in whatever order, isModified is false, and with resave off
\* no store.set is issued and with rolling off no session cookie is set.
C15_KeyOrderIsNoModification ==
  \A r \in Reqs :
    (Hydrated(r) /\ SameMapping(session[r].data, Loaded(r))) =>
      /\ ~isModified(r, session[r])
      /\ ~opts.resave => N(r, "set") = 0
      /\ ~opts.rolling => N(r, "cookie") = 0

\* store.get called back with an error other than ENOENT for request r
GetFailed(r) == \E i \in At(r, "got") : trace[r][i].arg = "error"

\* C16 as stated: when store.get reports an error other than not-found, the
\* error is passed to next() with no session attached, and the finalization
\* of that request issues neither store.set nor store.destroy, whatever
\* unset, resave and saveUninitialized are.
C16_GetErrorLeavesStoreAlone ==
  \A r \in Reqs :
    GetFailed(r) =>
      /\ Attached(r).arg = "err"
      /\ session[r] = NoSession
      /\ N(r, "set") = 0
      /\ N(r, "destroy") = 0

\* the session attached to request r has another id than the one snapshotted
\* when it was loaded or generated
IdChanged(r) == session[r] # NoSession /\ session[r].id # originalId[r]

\* C17: a session whose id differs from the snapshotted id counts as
\* modified, its fingerprint changed or not: shouldSave and shouldSetCookie
\* are true for it, finalization saves it under its id, and the headers
\* written at finalization carry its cookie when the secure test passes,
\* whatever resave, saveUninitialized and rolling are.
C17_RegeneratedIsModified ==
  \A r \in Reqs :
    IdChanged(r) =>
      /\ isModified(r, session[r])
      /\ shouldSave(r, Req(r))
      /\ shouldSetCookie(r, Req(r))
      /\ Finalized(r) => SavedOnceAs(r, session[r].id, session[r].data)
      /\ (Finalized(r) /\ ~EarlyHead(r) /\ SecurePass(r)) =>
           CookieOnceWith(r, session[r].id)

\* a generated session was regenerated and left empty, and was saved and
\* announced with resave, saveUninitialized and rolling all off
C17_Witness ==
  \E r \in Reqs :
    /\ ~opts.resave /\ ~opts.saveUninitialized /\ ~opts.rolling
    /\ IdChanged(r)
    /\ originalHash[r] = <<hash(session[r])>>
    /\ Finalized(r)
    /\ N(r, "set") = 1
    /\ CookieOnceWith(r, session[r].id)

\* the session data differed from the loaded data when the headers of the
\* response were written
ModifiedAtHeaders(r) ==
  IF EarlyHead(r)
  THEN \E h \in At(r, "head") : trace[r][h].arg = "changed"
  ELSE session[r].data # Loaded(r)

\* C18: with rolling off, for a session loaded for the cookie's id and still
\* under that id, once the headers are written and the secure test passes:
\* the session cookie is set (once, with that id) exactly when the cookie has
\* an expiry and the session data differ from the loaded data at the moment
\* the headers are written; an unmodified session and a modified one with a
\* session-only cookie do not set it.
C18_CookieOfLoadedSession ==
  \A r \in Reqs :
    (/\ ~opts.rolling
     /\ patched[r] /\ headersSent[r]
     /\ cookieId[r] # 0
     /\ \E i \in At(r, "got") : trace[r][i].arg = "found"
     /\ session[r] # NoSession /\ session[r].id = cookieId[r]
     /\ SecurePass(r))
    => /\ N(r, "cookie") <= 1
       /\ \A c \in At(r, "cookie") : trace[r][c].id = cookieId[r]
       /\ N(r, "cookie") = 1 <=>
            (session[r].cookie.expires # "null" /\ ModifiedAtHeaders(r))

\* the head was written while the data were changed: the cookie was set,
\* although the data were as loaded again when the response ended
C18_Witness ==
  \E r \in Reqs :
    /\ ~opts.rolling /\ ~opts.resave /\ ~opts.saveUninitialized
    /\ Hydrated(r)
    /\ EarlyHead(r) /\ ModifiedAtHeaders(r)
    /\ session[r].data = Loaded(r)
    /\ N(r, "cookie") = 1
    /\ N(r, "set") = 0
    /\ N(r, "end") = 1

\* the events of request r that hand the chunk "body" to the response
Deliveries(r) ==
  {i \in At(r, "write") \cup At(r, "end") : trace[r][i].arg = "body"}

\* C19: the chunk passed to the invocation of the patched res.end that
\* finalizes the response reaches the underlying response exactly once: when
\* the store calls back after res.end has returned, res.write has written it
\* before the callback and the underlying end gets no chunk; when the store
\* calls back inside the store call, or no commit is issued, the underlying
\* end gets the chunk and nothing is written.
C19_ChunkDeliveredOnce ==
  \A r \in Reqs :
    Finalized(r) =>
      /\ Cardinality(Deliveries(r)) = 1
      /\ Has(r, "write") =>
           /\ Commits(r) # {}
           /\ \A w \in At(r, "write") :
                /\ trace[r][w].arg = "body"
                /\ \A k \in At(r, "cb") : w < k
           /\ \A e \in At(r, "end") : trace[r][e].arg = "none"
      /\ ~Has(r, "write") =>
           /\ N(r, "end") = 1
           /\ \A e \in At(r, "end") :
                /\ trace[r][e].arg = "body"
                /\ \A j \in Commits(r) : \E k \in At(r, "cb") : j < k /\ k < e

\* the chunk was written, the store called back later with an error, and the
\* response was ended without a chunk
C19_Witness ==
  \E r \in Reqs :
    /\ N(r, "write") = 1
    /\ \E k \in At(r, "cb") : trace[r][k].arg = "err"
    /\ \E e \in At(r, "end") : trace[r][e].arg = "none"
    /\ Cardinality(Deliveries(r)) = 1

\* the session cookies of request r that carry another id than its cookie did
NewIdCookies(r) == {c \in At(r, "cookie") : trace[r][c].id # cookieId[r]}

\* store.set was issued for the id the cookie at position c carries
SavedFor(r, c) == \E i \in At(r, "set") : trace[r][i].id = trace[r][c].id

\* C20 as stated: whenever a response sets the session cookie with a newly
\* generated id, the finalization of that request issues store.set for that
\* id, whatever rolling, resave and saveUninitialized are.
C20_NewIdCookieIsSaved ==
  \A r \in Reqs :
    Finalized(r) => \A c \in NewIdCookies(r) : SavedFor(r, c)

\* C20: with rolling off, whenever the headers written at finalization set the
\* session cookie with a newly generated id, that finalization issues
\* store.set for that id, whatever resave and saveUninitialized are.
C20_NewIdCookieIsSavedWithoutRolling ==
  \A r \in Reqs :
    (~opts.rolling /\ Finalized(r) /\ ~EarlyHead(r)) =>
      \A c \in NewIdCookies(r) : SavedFor(r, c)

\* after a store miss an untouched session got its cookie and was saved
C20_Witness ==
  \E r \in Reqs :
    /\ ~opts.rolling /\ ~opts.resave
    /\ Finalized(r) /\ ~EarlyHead(r)
    /\ Missed(r)
    /\ ~wrote[r]
    /\ NewIdCookies(r) # {}
    /\ \A c \in NewIdCookies(r) : SavedFor(r, c)

====
